---- MODULE Spec2Model ----
(***************************************************************************)
(* A model of current_city_weather.py: the CityWeather object with its     *)
(* three property setters, the module-level registry city_weather_dict,    *)
(* and the fetch / write / parse / populate / print pipeline that run()    *)
(* and main() drive.                                                       *)
(***************************************************************************)
EXTENDS Integers, Sequences, FiniteSets, TLC

VARIABLES
    self,               \* the CityWeather object: city_name, units, api_key, mode
    city_weather_dict,  \* module-level registry, keyed by city name
    file,               \* what the current call has written to weather.xml
    pc,                 \* position inside update_city_weather_dict / run
    in_run,             \* TRUE when the pipeline was entered through run() or main()
    url,                \* the request URL built for urlopen
    xml_data,           \* the response body read from the provider
    document,           \* the document minidom.parse returned
    stdout,             \* what the current call has printed
    call,               \* the current (or last) call: operation, argument, exception raised
    failure,            \* the stage at which the current query met a failure
    stages,             \* the pipeline stages the current query has executed
    pre_dict,           \* the registry as it was when the current call began
    last_ok             \* per city, the response of its last successful query

vars == <<self, city_weather_dict, file, pc, in_run, url, xml_data, document,
          stdout, call, failure, stages, pre_dict, last_ok>>

(***************************************************************************)
(* Bounds of the model.                                                    *)
(***************************************************************************)
RecursionLimit == 3

(***************************************************************************)
(* Python values, tagged with their type.                                  *)
(***************************************************************************)
Str(s) == [t |-> "str", v |-> s]
None == [t |-> "NoneType", v |-> ""]
IntVal(s) == [t |-> "int", v |-> s]

IsStr(val) == val.t = "str"

Truthy(val) ==
    CASE val.t = "str" -> val.v # ""
      [] val.t = "int" -> val.v # "0"
      [] OTHER -> FALSE

(***************************************************************************)
(* Module constants.                                                       *)
(***************************************************************************)
SERVER_NAME == "http://api.openweathermap.org"
DATA_PATH == "/data/2.5/weather?q="
CITY_FILE_NAME == "weather.xml"

\* A dict in insertion order: a sequence of <<key, value>> pairs.
unit_conversion_dict ==
    << <<"fahrenheit", "imperial">>, <<"celsius", "metric">>, <<"kelvin", "">> >>

DictKeys(d) == [i \in 1..Len(d) |-> d[i][1]]

\* d[key]: the value, or KeyError
DictGet(d, key) ==
    LET hits == {i \in 1..Len(d) : Str(d[i][1]) = key}
    IN  IF hits = {}
        THEN [exc |-> "KeyError", v |-> ""]
        ELSE [exc |-> "ok", v |-> d[CHOOSE i \in hits : TRUE][2]]

WeatherException == "WeatherException"

\* `except cls as e` catches exc when exc is an instance of cls; none of the
\* exceptions modelled here is a subclass of another.
Catches(cls, exc) == exc = cls

(***************************************************************************)
(* CityWeather.__init__ : stores its arguments without validating them.    *)
(***************************************************************************)
CityWeather(city, units, key) ==
    [city_name |-> city, units |-> units, api_key |-> key, mode |-> "xml"]

(***************************************************************************)
(* The property setters.  Each returns the exception raised ("ok" for a    *)
(* normal return) and the value the private field holds afterwards.        *)
(***************************************************************************)
\* variant of the setter without the type check (lines 49-54 left out)
CityNameSetterUnchecked(val, old) == [exc |-> "ok", value |-> val]

CityNameSetter(val, old) ==
    IF val.t # "str"
    THEN [exc |-> WeatherException, value |-> old]
    ELSE [exc |-> "ok", value |-> val]

\* for k in unit_conversion_dict: if val != k: raise
RECURSIVE UnitsLoop(_, _)
UnitsLoop(val, i) ==
    IF i > Len(unit_conversion_dict)
    THEN "ok"
    ELSE IF val # Str(DictKeys(unit_conversion_dict)[i])
         THEN WeatherException
         ELSE UnitsLoop(val, i + 1)

UnitsSetter(val, old) ==
    LET exc == UnitsLoop(val, 1)
    IN  [exc |-> exc, value |-> IF exc = "ok" THEN val ELSE old]

\* if val: self.api_key = val  -- the assignment re-enters this setter
RECURSIVE ApiKeySetterAt(_, _, _)
ApiKeySetterAt(val, old, depth) ==
    IF Truthy(val)
    THEN IF depth >= RecursionLimit
         THEN [exc |-> "RecursionError", value |-> old]
         ELSE ApiKeySetterAt(val, old, depth + 1)
    ELSE [exc |-> WeatherException, value |-> old]

ApiKeySetter(val, old) == ApiKeySetterAt(val, old, 1)

(***************************************************************************)
(* XML documents.  An element is present or missing; a present element     *)
(* carries its "value" attribute and its "unit" or "name" attribute.       *)
(* getAttribute of an attribute that is not there yields "".               *)
(***************************************************************************)
Missing == [present |-> FALSE, value |-> "", attr |-> ""]
Node(value, attr) == [present |-> TRUE, value |-> value, attr |-> attr]

Elements == {"current", "temperature", "wind", "speed", "humidity", "pressure", "clouds"}

Sample1(unit) ==
    [wellformed |-> TRUE, current |-> TRUE,
     temperature |-> Node("15", unit), humidity |-> Node("60", "%"),
     wind |-> TRUE, speed |-> Node("3", "Light breeze"),
     pressure |-> Node("1012", "hPa"), clouds |-> Node("40", "scattered clouds")]

Sample2(unit) ==
    [wellformed |-> TRUE, current |-> TRUE,
     temperature |-> Node("59", unit), humidity |-> Node("85", "percent"),
     wind |-> TRUE, speed |-> Node("11", "Strong Breeze"),
     pressure |-> Node("998", "mbar"), clouds |-> Node("90", "Overcast Clouds")]

\* the document with one element (and what it encloses) removed
Without(doc, e) ==
    CASE e = "current" ->
            [doc EXCEPT !.current = FALSE, !.temperature = Missing,
                        !.humidity = Missing, !.wind = FALSE, !.speed = Missing,
                        !.pressure = Missing, !.clouds = Missing]
      [] e = "wind" -> [doc EXCEPT !.wind = FALSE, !.speed = Missing]
      [] e = "speed" -> [doc EXCEPT !.speed = Missing]
      [] e = "temperature" -> [doc EXCEPT !.temperature = Missing]
      [] e = "humidity" -> [doc EXCEPT !.humidity = Missing]
      [] e = "pressure" -> [doc EXCEPT !.pressure = Missing]
      [] e = "clouds" -> [doc EXCEPT !.clouds = Missing]

NotXml == [Sample1("") EXCEPT !.wellformed = FALSE]

\* placeholder of a local variable that is not bound, and of a file that does not exist
Unbound == [Without(Sample1(""), "current") EXCEPT !.wellformed = FALSE]

FullResponses ==
    {Sample1("metric"), Sample2("imperial"), Sample1(""), Sample2("celsius")}

Responses ==
    FullResponses \cup {Without(Sample1("metric"), e) : e \in Elements} \cup {NotXml}

\* every expected element is in the document
Complete(doc) ==
    /\ doc.current /\ doc.wind
    /\ doc.temperature.present /\ doc.humidity.present /\ doc.speed.present
    /\ doc.pressure.present /\ doc.clouds.present

(***************************************************************************)
(* create_city_weather_data_file, lines 92-96: the request URL.            *)
(***************************************************************************)
BuildUrl(obj) ==
    LET api_units == DictGet(unit_conversion_dict, obj.units)
    IN  IF api_units.exc # "ok" THEN [exc |-> "KeyError", url |-> ""]
        ELSE IF ~IsStr(obj.city_name) \/ ~IsStr(obj.api_key)
        THEN [exc |-> "TypeError", url |-> ""]
        ELSE [exc |-> "ok",
              url |-> SERVER_NAME \o DATA_PATH \o obj.city_name.v \o "&appid="
                      \o obj.api_key.v \o "&mode=" \o obj.mode \o "&units="
                      \o api_units.v]

(***************************************************************************)
(* update_city_weather_dict, lines 120-144: the attributes read from the   *)
(* parsed document.  node[0] of an empty node list raises IndexError.      *)
(***************************************************************************)
\* variant that reverse-maps every provider token, not only "metric"
ReverseUnitTotal(api_temp_unit) ==
    LET hits == {i \in 1..Len(unit_conversion_dict) :
                    unit_conversion_dict[i][2] = api_temp_unit}
    IN  IF hits # {}
        THEN unit_conversion_dict[CHOOSE i \in hits : \A j \in hits : i <= j][1]
        ELSE api_temp_unit

ReverseUnit(api_temp_unit) ==
    IF api_temp_unit = "metric"
    THEN LET hits == {i \in 1..Len(unit_conversion_dict) :
                         unit_conversion_dict[i][2] = api_temp_unit}
         IN  unit_conversion_dict[CHOOSE i \in hits : \A j \in hits : i <= j][1]
    ELSE api_temp_unit

Report(doc) ==
    [temperature |-> [temperature_val |-> doc.temperature.value,
                      temp_unit |-> ReverseUnit(doc.temperature.attr)],
     humidity |-> [humidity_val |-> doc.humidity.value,
                   humidity_unit |-> doc.humidity.attr],
     wind |-> [wind_val |-> doc.speed.value, wind_desc |-> doc.speed.attr],
     pressure |-> [pressure_val |-> doc.pressure.value,
                   pressure_unit |-> doc.pressure.attr],
     clouds |-> [clouds_val |-> doc.clouds.value, clouds_desc |-> doc.clouds.attr]]

\* variant that reads "" for the attributes of a missing element instead of raising
ExtractLenient(doc) == [exc |-> "ok", report |-> Report(doc)]

Extract(doc) ==
    IF ~doc.current THEN [exc |-> "IndexError", report |-> Report(doc)]
    ELSE IF ~doc.temperature.present THEN [exc |-> "IndexError", report |-> Report(doc)]
    ELSE IF ~doc.humidity.present THEN [exc |-> "IndexError", report |-> Report(doc)]
    ELSE IF ~doc.wind \/ ~doc.speed.present THEN [exc |-> "IndexError", report |-> Report(doc)]
    ELSE IF ~doc.clouds.present THEN [exc |-> "IndexError", report |-> Report(doc)]
    ELSE IF ~doc.pressure.present THEN [exc |-> "IndexError", report |-> Report(doc)]
    ELSE [exc |-> "ok", report |-> Report(doc)]

(***************************************************************************)
(* city_weather_dict[key] = value, lines 146-158.                          *)
(***************************************************************************)
EmptyDict == [k \in {} |-> Report(Sample1(""))]

\* variant that rebinds the registry to a dict holding the new entry alone
DictAssignReplaceAll(d, key, value) == [k \in {key} |-> value]

\* variant that keeps an entry already present (setdefault)
DictAssignKeepExisting(d, key, value) ==
    [k \in DOMAIN d \cup {key} |-> IF k \in DOMAIN d THEN d[k] ELSE value]

DictAssign(d, key, value) ==
    [k \in DOMAIN d \cup {key} |-> IF k = key THEN value ELSE d[k]]

(***************************************************************************)
(* print_city_weather_report, lines 165-185.                               *)
(***************************************************************************)
Lower(s) ==
    CASE s = "Light breeze" -> "light breeze"
      [] s = "Strong Breeze" -> "strong breeze"
      [] s = "Overcast Clouds" -> "overcast clouds"
      [] OTHER -> s

RenderReport(city_name, d) ==
    IF city_name \notin DOMAIN d
    THEN [exc |-> "KeyError", text |-> <<>>]
    ELSE LET r == d[city_name]
         IN  [exc |-> "ok",
              text |-> <<"Weather report for " \o city_name \o ":",
                         "Temperature is at " \o r.temperature.temperature_val \o " "
                             \o r.temperature.temp_unit,
                         "Humidity is " \o r.humidity.humidity_val
                             \o r.humidity.humidity_unit,
                         "Wind is at " \o r.wind.wind_val \o " speed meaning "
                             \o Lower(r.wind.wind_desc),
                         "Air pressure is " \o r.pressure.pressure_val \o " "
                             \o r.pressure.pressure_unit,
                         "Clouds coverage is " \o r.clouds.clouds_val \o "% meaning "
                             \o Lower(r.clouds.clouds_desc)>>]

(***************************************************************************)
(* The values the callers pass in.                                         *)
(***************************************************************************)
CityArgs == {Str("tel aviv"), Str(""), IntVal("5")}
UnitArgs == {Str("kelvin"), Str("celsius"), Str("fahrenheit"), Str("rankine"), None}
\* the units an object is constructed with (the setter is tried with all of UnitArgs)
CtorUnits == {Str("celsius"), Str("kelvin"), Str("rankine")}
KeyArgs == {Str("0e0ab227"), Str(""), None}

\* argparse, lines 211-225: positional arguments are strings, temp_units has choices
MainChoices == {"kelvin", "celsius", "fahrenheit"}

QueryOps == {"update_city_weather_dict", "run", "main"}

(***************************************************************************)
(* Initial state: the module has been imported and one CityWeather object  *)
(* constructed.  The constructor's defaults are city_name="paris",         *)
(* units="celsius", api_key=None; "tel aviv" stands for every non-empty    *)
(* city name.                                                              *)
(***************************************************************************)
Init ==
    /\ \E c \in CityArgs, u \in CtorUnits, k \in KeyArgs : self = CityWeather(c, u, k)
    /\ city_weather_dict = EmptyDict
    /\ file = Unbound
    /\ pc = "idle"
    /\ in_run = FALSE
    /\ url = ""
    /\ xml_data = Unbound
    /\ document = Unbound
    /\ stdout = <<>>
    /\ call = [op |-> "__init__", arg |-> None, old |-> None, exc |-> "ok"]
    /\ failure = "none"
    /\ stages = <<>>
    /\ pre_dict = EmptyDict
    /\ last_ok = [k \in {} |-> Unbound]

\* A call begins: its locals are fresh and it has written nothing yet.  What an
\* earlier call left in weather.xml is not tracked: open(..., mode='wb')
\* truncates the file before anything reads it.
Enter(op, arg, old, exc) ==
    /\ call' = [op |-> op, arg |-> arg, old |-> old, exc |-> exc]
    /\ pre_dict' = city_weather_dict
    /\ file' = Unbound
    /\ url' = ""
    /\ xml_data' = Unbound
    /\ document' = Unbound
    /\ failure' = "none"
    /\ stages' = <<>>

\* An exception leaves the pipeline and reaches the caller.
Raise(exc) ==
    /\ pc' = "idle"
    /\ call' = [call EXCEPT !.exc = exc]

Stage(name) == stages' = Append(stages, name)

(***************************************************************************)
(* Calls made on the object while no query is in progress.                 *)
(***************************************************************************)
Construct(c, u, k) ==
    /\ pc = "idle"
    /\ self' = CityWeather(c, u, k)
    /\ Enter("__init__", None, None, "ok")
    /\ stdout' = <<>>
    /\ in_run' = FALSE
    /\ UNCHANGED <<city_weather_dict, pc, last_ok>>

SetCityName(val) ==
    /\ pc = "idle"
    /\ LET r == CityNameSetter(val, self.city_name)
       IN  /\ self' = [self EXCEPT !.city_name = r.value]
           /\ Enter("city_name.setter", val, self.city_name, r.exc)
    /\ stdout' = <<>>
    /\ in_run' = FALSE
    /\ UNCHANGED <<city_weather_dict, pc, last_ok>>

SetUnits(val) ==
    /\ pc = "idle"
    /\ LET r == UnitsSetter(val, self.units)
       IN  /\ self' = [self EXCEPT !.units = r.value]
           /\ Enter("units.setter", val, self.units, r.exc)
    /\ stdout' = <<>>
    /\ in_run' = FALSE
    /\ UNCHANGED <<city_weather_dict, pc, last_ok>>

SetApiKey(val) ==
    /\ pc = "idle"
    /\ LET r == ApiKeySetter(val, self.api_key)
       IN  /\ self' = [self EXCEPT !.api_key = r.value]
           /\ Enter("api_key.setter", val, self.api_key, r.exc)
    /\ stdout' = <<>>
    /\ in_run' = FALSE
    /\ UNCHANGED <<city_weather_dict, pc, last_ok>>

PrintReport ==
    /\ pc = "idle"
    /\ LET r == IF IsStr(self.city_name)
                THEN RenderReport(self.city_name.v, city_weather_dict)
                ELSE [exc |-> "KeyError", text |-> <<>>]
       IN  /\ Enter("print_city_weather_report", None, None, r.exc)
           /\ stdout' = IF r.exc = "ok" THEN <<r.text>> ELSE <<>>
    /\ in_run' = FALSE
    /\ UNCHANGED <<self, city_weather_dict, pc, last_ok>>

(***************************************************************************)
(* Entering the pipeline: a direct call of update_city_weather_dict, or    *)
(* run(), or main().                                                       *)
(***************************************************************************)
CallUpdate ==
    /\ pc = "idle"
    /\ Enter("update_city_weather_dict", None, None, "running")
    /\ pc' = "build"
    /\ in_run' = FALSE
    /\ stdout' = <<>>
    /\ UNCHANGED <<self, city_weather_dict, last_ok>>

Run(c, u, k) ==
    /\ pc = "idle"
    /\ self' = CityWeather(c, u, k)
    /\ Enter("run", None, None, "running")
    /\ pc' = "build"
    /\ in_run' = TRUE
    /\ stdout' = <<>>
    /\ UNCHANGED <<city_weather_dict, last_ok>>

Main(c, u, k) ==
    /\ pc = "idle"
    /\ IsStr(c) /\ IsStr(u) /\ IsStr(k)
    /\ stdout' = <<>>
    /\ IF u.v \in MainChoices
       THEN /\ self' = CityWeather(c, u, k)
            /\ Enter("main", None, None, "running")
            /\ pc' = "build"
            /\ in_run' = TRUE
               ELSE /\ Enter("main", None, None, "SystemExit")
            /\ in_run' = FALSE
            /\ UNCHANGED <<self, pc>>
    /\ UNCHANGED <<city_weather_dict, last_ok>>

(***************************************************************************)
(* create_city_weather_data_file.                                          *)
(***************************************************************************)
BuildUrlStep ==
    /\ pc = "build"
    /\ Stage("build_url")
    /\ LET r == BuildUrl(self)
       IN  IF r.exc = "ok"
           THEN /\ url' = r.url
                /\ pc' = "get"
                /\ UNCHANGED call
           ELSE /\ Raise(r.exc)
                /\ UNCHANGED url
    /\ UNCHANGED <<self, city_weather_dict, file, in_run, xml_data, document,
                   stdout, failure, pre_dict, last_ok>>

\* urlopen(...).read(): the provider answers, or the request fails
HttpGet ==
    /\ pc = "get"
    /\ Stage("http_get")
    /\ \/ \E resp \in Responses :
             /\ xml_data' = resp
             /\ pc' = "write"
             /\ UNCHANGED <<call, failure>>
       \/ /\ failure' = "network"
          /\ Raise("URLError")
          /\ UNCHANGED xml_data
    /\ UNCHANGED <<self, city_weather_dict, file, in_run, url, document,
                   stdout, pre_dict, last_ok>>

\* with open(CITY_FILE_NAME, mode='wb') as file: file.write(xml_data)
WriteFile ==
    /\ pc = "write"
    /\ Stage("write_file")
    /\ \/ /\ file' = xml_data
          /\ pc' = "parse"
          /\ UNCHANGED <<call, failure, stdout>>
       \/ /\ failure' = "file"
          /\ IF Catches(WeatherException, "OSError")
             THEN \* the handler prints and the method returns; weather.xml
                  \* holds whatever was on disk, or does not exist
                  /\ stdout' = Append(stdout, "File operations failed with error: OSError")
                  /\ pc' = "parse"
                  /\ \E f \in Responses \cup {Unbound} : file' = f
                  /\ UNCHANGED call
             ELSE /\ Raise("OSError")
                  /\ UNCHANGED <<stdout, file>>
    /\ UNCHANGED <<self, city_weather_dict, in_run, url, xml_data, document,
                   pre_dict, last_ok>>

(***************************************************************************)
(* update_city_weather_dict after the fetch.                               *)
(***************************************************************************)
\* document = xml.dom.minidom.parse(CITY_FILE_NAME)
ParseFile ==
    /\ pc = "parse"
    /\ Stage("parse")
    /\ IF file.wellformed
       THEN /\ document' = file
            /\ pc' = "populate"
            /\ UNCHANGED <<call, failure, stdout>>
       ELSE LET exc == IF file = Unbound THEN "FileNotFoundError" ELSE "ExpatError"
            IN  /\ failure' = "parse"
                /\ UNCHANGED document
                /\ IF Catches(WeatherException, exc)
                   THEN /\ stdout' = Append(stdout, "Parsing data file " \o CITY_FILE_NAME
                                                    \o " failed with error: " \o exc)
                        /\ pc' = "populate"
                        /\ UNCHANGED call
                   ELSE /\ Raise(exc)
                        /\ UNCHANGED stdout
    /\ UNCHANGED <<self, city_weather_dict, file, in_run, url, xml_data,
                   pre_dict, last_ok>>

\* lines 120-158: read the attributes, then store the record
Populate ==
    /\ pc = "populate"
    /\ Stage("populate")
    /\ IF document = Unbound
       THEN /\ Raise("UnboundLocalError")
            /\ UNCHANGED <<city_weather_dict, last_ok, failure>>
       ELSE LET r == Extract(document)
            IN  IF r.exc = "ok"
                THEN /\ city_weather_dict' =
                            DictAssign(city_weather_dict, self.city_name.v, r.report)
                     /\ last_ok' = [k \in DOMAIN last_ok \cup {self.city_name.v} |->
                                        IF k = self.city_name.v THEN xml_data ELSE last_ok[k]]
                     /\ IF in_run
                        THEN pc' = "render" /\ UNCHANGED call
                        ELSE pc' = "idle" /\ call' = [call EXCEPT !.exc = "ok"]
                     /\ UNCHANGED failure
                ELSE /\ failure' = "parse"
                     /\ Raise(r.exc)
                     /\ UNCHANGED <<city_weather_dict, last_ok>>
    /\ UNCHANGED <<self, file, in_run, url, xml_data, document, stdout,
                   pre_dict>>

\* run / main, after update_city_weather_dict has returned
Render ==
    /\ pc = "render"
    /\ Stage("render")
    /\ LET r == RenderReport(self.city_name.v, city_weather_dict)
       IN  /\ stdout' = IF r.exc = "ok" THEN Append(stdout, r.text) ELSE stdout
           /\ call' = [call EXCEPT !.exc = r.exc]
    /\ pc' = "idle"
    /\ UNCHANGED <<self, city_weather_dict, file, in_run, url, xml_data, document,
                   failure, pre_dict, last_ok>>

Next ==
    \/ \E c \in CityArgs, u \in CtorUnits, k \in KeyArgs : Construct(c, u, k)
    \/ \E val \in CityArgs : SetCityName(val)
    \/ \E val \in UnitArgs : SetUnits(val)
    \/ \E val \in KeyArgs : SetApiKey(val)
    \/ PrintReport
    \/ CallUpdate
    \/ \E c \in CityArgs, u \in CtorUnits, k \in KeyArgs : Run(c, u, k)
    \/ \E c \in CityArgs, u \in CtorUnits, k \in KeyArgs : Main(c, u, k)
    \/ BuildUrlStep
    \/ HttpGet
    \/ WriteFile
    \/ ParseFile
    \/ Populate
    \/ Render

Spec == Init /\ [][Next]_vars

(***************************************************************************)
(* Vocabulary of the properties.                                           *)
(***************************************************************************)
Range(seq) == {seq[i] : i \in 1..Len(seq)}

ValidUnits == {Str("kelvin"), Str("celsius"), Str("fahrenheit")}

\* the provider token the specification gives for each unit
ProviderToken(unit) ==
    CASE unit = Str("kelvin") -> ""
      [] unit = Str("celsius") -> "metric"
      [] unit = Str("fahrenheit") -> "imperial"

\* the invariant the specification states for a query
ValidQuery(obj) ==
    /\ obj.units \in ValidUnits
    /\ IsStr(obj.city_name) /\ obj.city_name.v # ""
    /\ IsStr(obj.api_key) /\ obj.api_key.v # ""

\* the record the specification expects for a response
Expected(resp) ==
    [temperature |-> [temperature_val |-> resp.temperature.value,
                      temp_unit |-> IF resp.temperature.attr = "metric"
                                    THEN "celsius" ELSE resp.temperature.attr],
     humidity |-> [humidity_val |-> resp.humidity.value,
                   humidity_unit |-> resp.humidity.attr],
     wind |-> [wind_val |-> resp.speed.value, wind_desc |-> resp.speed.attr],
     pressure |-> [pressure_val |-> resp.pressure.value,
                   pressure_unit |-> resp.pressure.attr],
     clouds |-> [clouds_val |-> resp.clouds.value, clouds_desc |-> resp.clouds.attr]]

Fields == {"temperature", "humidity", "wind", "pressure", "clouds"}

\* a query has returned to its caller
QueryOver == pc = "idle" /\ call.op \in QueryOps
QuerySucceeded == QueryOver /\ call.exc = "ok"

Pipeline == <<"build_url", "http_get", "write_file", "parse", "populate", "render">>

(***************************************************************************)
(* C1: for every value in {kelvin, celsius, fahrenheit} the units setter   *)
(* succeeds, leaves units equal to the value, and the value maps to the    *)
(* provider token "", "metric", "imperial" respectively; for every other   *)
(* value the setter raises WeatherException and units is unchanged.        *)
(***************************************************************************)
C1_UnitsSetterContract ==
    call.op = "units.setter" =>
        IF call.arg \in ValidUnits
        THEN /\ call.exc = "ok"
             /\ self.units = call.arg
             /\ DictGet(unit_conversion_dict, call.arg) =
                    [exc |-> "ok", v |-> ProviderToken(call.arg)]
        ELSE /\ call.exc = WeatherException
             /\ self.units = call.old

(***************************************************************************)
(* C2: the api_key setter accepts any non-empty string (the call returns   *)
(* normally and api_key equals the key); an empty or absent value raises   *)
(* WeatherException and the stored key is unchanged.                       *)
(***************************************************************************)
C2_ApiKeySetterContract ==
    call.op = "api_key.setter" =>
        IF IsStr(call.arg) /\ call.arg.v # ""
        THEN call.exc = "ok" /\ self.api_key = call.arg
        ELSE call.exc = WeatherException /\ self.api_key = call.old

C4_QueryInvariant ==
    /\ ValidQuery(self)
    /\ "http_get" \in Range(stages) => ValidQuery(self)

(***************************************************************************)
(* C5: when the fetched XML lacks one of the expected elements, the query  *)
(* fails with the error of a missing element (IndexError, the ParseError   *)
(* of the specification) and city_weather_dict is exactly what it was      *)
(* before the call.                                                        *)
(***************************************************************************)
C5_MissingElementLeavesRegistry ==
    (QueryOver /\ document # Unbound /\ ~Complete(document)) =>
        /\ call.exc = "IndexError"
        /\ failure = "parse"
        /\ "render" \notin Range(stages)
        /\ city_weather_dict = pre_dict

\* a response without <wind> for a city that already has an entry
C5_Witness ==
    /\ QueryOver
    /\ document = Without(Sample1("metric"), "wind")
    /\ call.exc = "IndexError"
    /\ IsStr(self.city_name) /\ self.city_name.v \in DOMAIN pre_dict
    /\ city_weather_dict = pre_dict

(***************************************************************************)
(* C6: network, scratch-file and parse failures during a query are caught  *)
(* where they occur and reported by a printed message, not by an exception *)
(* escaping to the caller; the call sequence then halts and the registry   *)
(* is left as it was.                                                      *)
(***************************************************************************)
C6_FailuresCaughtAndPrinted ==
    (QueryOver /\ failure # "none") =>
        /\ call.exc \notin {"URLError", "OSError", "FileNotFoundError", "ExpatError",
                            "IndexError", "UnboundLocalError"}
        /\ stdout # <<>>
        /\ "render" \notin Range(stages)
        /\ city_weather_dict = pre_dict

(***************************************************************************)
(* C7: after two sequential successful queries for the same city the       *)
(* registry holds one entry for that city and all five fields come from    *)
(* the second response: a successful query for a city that already has an  *)
(* entry replaces the whole entry and adds no key.                         *)
(***************************************************************************)
C7_LastWriteWins ==
    (QuerySucceeded /\ self.city_name.v \in DOMAIN pre_dict) =>
        /\ DOMAIN city_weather_dict = DOMAIN pre_dict
        /\ city_weather_dict[self.city_name.v] = Expected(xml_data)

\* the second query has replaced an entry that differed in all five fields
C7_Witness ==
    /\ QuerySucceeded
    /\ self.city_name.v \in DOMAIN pre_dict
    /\ \A f \in Fields :
          /\ pre_dict[self.city_name.v][f] # city_weather_dict[self.city_name.v][f]
          /\ city_weather_dict[self.city_name.v][f] = Expected(xml_data)[f]

(***************************************************************************)
(* C8: in one query the steps happen only in the order validate, build     *)
(* URL, HTTP GET, write file, parse, populate, render: the GET is never    *)
(* issued before the inputs were validated, the report is rendered only    *)
(* after the record was populated by the same query, and a failure aborts  *)
(* the query with no later stage and no retry.                             *)
(***************************************************************************)
C8_LinearPipeline ==
    /\ Len(stages) <= Len(Pipeline)
    /\ \A i \in 1..Len(stages) : i <= Len(Pipeline) => stages[i] = Pipeline[i]
    /\ "http_get" \in Range(stages) => ValidQuery(self)
    /\ "render" \in Range(stages) =>
          /\ "populate" \in Range(stages)
          /\ self.city_name.v \in DOMAIN city_weather_dict
          /\ city_weather_dict[self.city_name.v] = Expected(xml_data)
    /\ failure # "none" => pc = "idle" /\ "render" \notin Range(stages)

(***************************************************************************)
(* C9: in a successfully parsed response the stored temperature unit is    *)
(* "celsius" when the provider token is "metric" and the token itself for  *)
(* every other token; every other stored field equals the response's       *)
(* attribute string verbatim.                                              *)
(***************************************************************************)
C9_TemperatureUnitMapping ==
    QuerySucceeded =>
        LET r == city_weather_dict[self.city_name.v]
            t == xml_data.temperature.attr
        IN  /\ r.temperature.temp_unit = IF t = "metric" THEN "celsius" ELSE t
            /\ r.temperature.temperature_val = xml_data.temperature.value
            /\ r.humidity = [humidity_val |-> xml_data.humidity.value,
                             humidity_unit |-> xml_data.humidity.attr]
            /\ r.wind = [wind_val |-> xml_data.speed.value,
                         wind_desc |-> xml_data.speed.attr]
            /\ r.pressure = [pressure_val |-> xml_data.pressure.value,
                             pressure_unit |-> xml_data.pressure.attr]
            /\ r.clouds = [clouds_val |-> xml_data.clouds.value,
                           clouds_desc |-> xml_data.clouds.attr]

\* the token "imperial" has been stored as it came
C9_Witness ==
    /\ QuerySucceeded
    /\ xml_data.temperature.attr = "imperial"
    /\ city_weather_dict[self.city_name.v].temperature.temp_unit = "imperial"
    /\ city_weather_dict[self.city_name.v].wind.wind_desc = "Strong Breeze"

(***************************************************************************)
(* C10: a call never changes or removes the entry of a city other than     *)
(* the one queried, no operation deletes an entry, every entry has all     *)
(* five fields, and the entry of each city is the result of the last       *)
(* successful query for that city.                                         *)
(***************************************************************************)
C10_RegistryFrame ==
    /\ \A c \in DOMAIN pre_dict :
          /\ c \in DOMAIN city_weather_dict
          /\ city_weather_dict[c] # pre_dict[c] =>
                call.op \in QueryOps /\ self.city_name = Str(c)
    /\ DOMAIN city_weather_dict = DOMAIN last_ok
    /\ \A c \in DOMAIN city_weather_dict :
          /\ DOMAIN city_weather_dict[c] = Fields
          /\ city_weather_dict[c] = Expected(last_ok[c])

\* a successful query for one city has left the differing entry of another alone
C10_Witness ==
    /\ QuerySucceeded
    /\ \E c \in DOMAIN pre_dict :
          /\ Str(c) # self.city_name
          /\ city_weather_dict[c] = pre_dict[c]
          /\ city_weather_dict[c] # city_weather_dict[self.city_name.v]
    /\ city_weather_dict[self.city_name.v] = Expected(xml_data)

====
